---- MODULE Spec2Model ----
(***************************************************************************)
(* Model of the rickroll line compiler (src/src/compiler.rs).              *)
(*                                                                         *)
(* A source text is a sequence of one-character strings.  Compiler::new    *)
(* splits it into raw lines; Compiler::compile walks the lines with the    *)
(* cursor ptr, classifies every non-blank trimmed line with                *)
(* Statement::match_statement and synthesises one instruction per line.    *)
(* One action models one iteration of the while loop of compile (one per   *)
(* branch), and Finish models the code after the loop.                     *)
(*                                                                         *)
(* The expression lexer, Scope and Error live in modules of the crate      *)
(* (lexer.rs, util.rs, error.rs) that are outside the modelled sources:    *)
(* they are modelled from their description in spec.md.                    *)
(***************************************************************************)
EXTENDS Integers, Sequences, FiniteSets, TLC

\* ------------------------------------------------------------------------
\* Bounds of the model
\* ------------------------------------------------------------------------

\* greatest number of logical lines of an input text
MaxLines == 3

\* greatest number of characters between the prefix and the suffix of a
\* generated line
MaxMid == 3

\* ------------------------------------------------------------------------
\* Characters and strings (a string is a sequence of 1-character strings)
\* ------------------------------------------------------------------------

\* str::trim removes White_Space characters; these are the ones of the model
WhiteSpace == {" ", "\t", "\n", "\r"}

\* the regex class \w, restricted to the characters of the model
WordChars == {"N", "e", "v", "r", "g", "o", "n", "a", "s", "y", "l", "t",
              "i", "d", "w", "x", "5", "_"}

SAY_PREFIX == <<"N","e","v","e","r"," ","g","o","n","n","a"," ","s","a","y"," ">>

LET_PREFIX == <<"N","e","v","e","r"," ","g","o","n","n","a"," ","l","e","t"," ">>

ASSIGN_PREFIX == <<"N","e","v","e","r"," ","g","o","n","n","a"," ","g","i","v","e"," ">>

LET_SUFFIX == <<" ","d","o","w","n">>

RECURSIVE TrimStart(_)
TrimStart(s) ==
  IF s = <<>> THEN s
  ELSE IF Head(s) \in WhiteSpace THEN TrimStart(Tail(s)) ELSE s

RECURSIVE TrimEnd(_)
TrimEnd(s) ==
  IF s = <<>> THEN s
  ELSE IF s[Len(s)] \in WhiteSpace THEN TrimEnd(SubSeq(s, 1, Len(s) - 1)) ELSE s

\* str::trim
Trim(s) == TrimEnd(TrimStart(s))

\* &s[from..to] with Rust's 0-based, half-open byte range (all characters of
\* the model are one byte wide)
Slice(s, from, to) == SubSeq(s, from + 1, to)

\* the range from..to is inside s; Rust panics otherwise
InRange(s, from, to) == from >= 0 /\ from <= to /\ to <= Len(s)

StartsWith(s, p) == Len(s) >= Len(p) /\ SubSeq(s, 1, Len(p)) = p

EndsWith(s, p) == Len(s) >= Len(p) /\ SubSeq(s, Len(s) - Len(p) + 1, Len(s)) = p

\* the regex .+ : one or more characters other than a line feed
AnyPlus(s) == Len(s) >= 1 /\ \A i \in 1..Len(s) : s[i] # "\n"

\* the regex \w+ : one or more word characters
WordPlus(s) == Len(s) >= 1 /\ \A i \in 1..Len(s) : s[i] \in WordChars

\* str::find(c): 0-based index of the first c, -1 for None
Find(s, c) ==
  IF \E i \in 1..Len(s) : s[i] = c
  THEN (CHOOSE i \in 1..Len(s) : s[i] = c /\ \A j \in 1..(i - 1) : s[j] # c) - 1
  ELSE -1

\* ------------------------------------------------------------------------
\* Statement classifier
\* ------------------------------------------------------------------------

\* ^Never gonna .+$ : a pattern that does not tell the statements apart
SAY_Loose(raw_line) ==
  /\ StartsWith(raw_line, SubSeq(SAY_PREFIX, 1, 12))
  /\ AnyPlus(SubSeq(raw_line, 13, Len(raw_line)))

\* ^Never gonna say .+$
SAY(raw_line) ==
  /\ StartsWith(raw_line, SAY_PREFIX)
  /\ AnyPlus(SubSeq(raw_line, Len(SAY_PREFIX) + 1, Len(raw_line)))

\* ^Never gonna let \w+ : the pattern without its suffix
LET_RE_NoSuffix(raw_line) ==
  /\ StartsWith(raw_line, LET_PREFIX)
  /\ WordPlus(SubSeq(raw_line, Len(LET_PREFIX) + 1, Len(raw_line)))

\* ^Never gonna let \w+ down$
LET_RE(raw_line) ==
  /\ StartsWith(raw_line, LET_PREFIX)
  /\ Len(raw_line) >= Len(LET_PREFIX) + Len(LET_SUFFIX)
  /\ EndsWith(raw_line, LET_SUFFIX)
  /\ WordPlus(SubSeq(raw_line, Len(LET_PREFIX) + 1, Len(raw_line) - Len(LET_SUFFIX)))

\* ^Never gonna give \w+.+$ : the pattern without the space after the name
ASSIGN_NoSpace(raw_line) ==
  /\ StartsWith(raw_line, ASSIGN_PREFIX)
  /\ \E i \in (Len(ASSIGN_PREFIX) + 1)..Len(raw_line) :
       /\ WordPlus(SubSeq(raw_line, Len(ASSIGN_PREFIX) + 1, i))
       /\ AnyPlus(SubSeq(raw_line, i + 1, Len(raw_line)))

\* ^Never gonna give \w+ .+$
ASSIGN(raw_line) ==
  /\ StartsWith(raw_line, ASSIGN_PREFIX)
  /\ \E i \in (Len(ASSIGN_PREFIX) + 1)..Len(raw_line) :
       /\ WordPlus(SubSeq(raw_line, Len(ASSIGN_PREFIX) + 1, i))
       /\ i + 1 <= Len(raw_line)
       /\ raw_line[i + 1] = " "
       /\ AnyPlus(SubSeq(raw_line, i + 2, Len(raw_line)))

\* the variants of enum Statement in declaration order (Statement::iter)
Statements == <<"Say", "Let", "Assign">>

\* Statement::matches
matches(statement, raw_line) ==
  CASE statement = "Say" -> SAY(raw_line)
    [] statement = "Let" -> LET_RE(raw_line)
    [] statement = "Assign" -> ASSIGN(raw_line)

\* Statement::match_statement: the first variant that matches, "None" if none
match_statement(raw_line) ==
  IF \E k \in 1..Len(Statements) : matches(Statements[k], raw_line)
  THEN Statements[CHOOSE k \in 1..Len(Statements) :
                    /\ matches(Statements[k], raw_line)
                    /\ \A j \in 1..(k - 1) : ~matches(Statements[j], raw_line)]
  ELSE "None"

\* ------------------------------------------------------------------------
\* Errors (crate::error) and the expression lexer (crate::lexer)
\* ------------------------------------------------------------------------

\* the value of the error slot while no error has been returned
NoError == [kind |-> "None", msg |-> <<>>, traceback |-> <<>>]

\* Error::new(kind, msg, Some(line)): an error whose traceback is one frame
ErrorNew(kind, msg, line) == [kind |-> kind, msg |-> msg, traceback |-> <<line>>]

\* Error::traceback(error, Some(line)): the error with one more, outermost, frame
ErrorTraceback(error, line) ==
  [error EXCEPT !.traceback = Append(error.traceback, line)]

\* the errors the lexer may return; a frame 0 is a frame without a line (None)
LexErrors ==
  { [kind |-> "IllegalCharError", msg |-> <<"Illegal character">>, traceback |-> <<>>],
    [kind |-> "NameError", msg |-> <<"Variable not found">>, traceback |-> <<0>>] }

\* the token list the lexer returns for an expression: opaque to the compiler
TokensOf(expr, scope) == <<expr, scope>>

\* Lexer::new(expr, scope).make_tokens(): the results the lexer may return
MakeTokens(expr, scope) ==
  { [ok |-> TRUE, tokens |-> TokensOf(expr, scope), error |-> NoError] }
  \cup { [ok |-> FALSE, tokens |-> <<>>, error |-> e] : e \in LexErrors }

\* a name the lexer may add to the scope it owns
LexerTemp == <<"_">>

\* the states in which the lexer may leave the scope that was moved into it
LexerFinalScopes(scope) == {scope, scope \cup {LexerTemp}}

\* ------------------------------------------------------------------------
\* Scope (crate::util)
\* ------------------------------------------------------------------------

\* Scope::new
ScopeNew == {}

\* Scope::has_var
has_var(scope, varname) == varname \in scope

\* Scope::add_var
add_var(scope, varname) == scope \cup {varname}

\* ------------------------------------------------------------------------
\* Input texts
\* ------------------------------------------------------------------------

Names == {<<"x">>, <<"y">>}

\* Say statements
SayLines == { SAY_PREFIX \o <<"x">> }

\* Let statements
LetLines == { LET_PREFIX \o n \o LET_SUFFIX : n \in Names }

\* Assign statements; the expression of the second holds a space
AssignLines ==
  { ASSIGN_PREFIX \o <<"x", " ", "5">>,
    ASSIGN_PREFIX \o <<"y", " ", "x", " ", "5">> }

\* empty and white-space-only lines
BlankLines == { <<>>, <<" ", "\t">> }

\* a statement with surrounding white space
PaddedLines == { <<" ">> \o LET_PREFIX \o <<"x">> \o LET_SUFFIX \o <<"\t">> }

\* lines of no grammar; the second is a Say without expression
IllegalLines == { <<"x">>, SAY_PREFIX }

\* the lines an input text is made of
SourceLines ==
  BlankLines \cup SayLines \cup LetLines \cup AssignLines \cup PaddedLines
  \cup IllegalLines

\* the characters a generated line has between its prefix and its suffix: a
\* word character, the space, a character that is neither, and a white-space
\* character that is not the space
MidChars == {"x", " ", "+", "\t"}

\* the sequences of at most n characters of MidChars
RECURSIVE MidSeqs(_)
MidSeqs(n) ==
  IF n = 0 THEN { <<>> }
  ELSE MidSeqs(n - 1)
       \cup { Append(m, c) : m \in { q \in MidSeqs(n - 1) : Len(q) = n - 1 },
                              c \in MidChars }

\* generated lines: optional white space, one of the three prefixes or none,
\* up to MaxMid characters, the suffix of Let or none, optional white space
GeneratedLines ==
  { lead \o pre \o mid \o suf \o trail :
      lead \in { <<>>, <<" ">> },
      pre \in { <<>>, SAY_PREFIX, LET_PREFIX, ASSIGN_PREFIX },
      mid \in MidSeqs(MaxMid),
      suf \in { <<>>, LET_SUFFIX },
      trail \in { <<>>, <<" ">> } }

LF == <<"\n">>

CRLF == <<"\r", "\n">>

Terminators == {LF, CRLF}

\* the sequences of 1..n source lines
RECURSIVE LineSeqs(_)
LineSeqs(n) ==
  IF n = 1 THEN { <<l>> : l \in SourceLines }
  ELSE LineSeqs(n - 1)
       \cup { Append(ls, l) : ls \in { q \in LineSeqs(n - 1) : Len(q) = n - 1 },
                               l \in SourceLines }

\* one line for every branch of the loop of compile
BranchLines ==
  { <<>>,
    SAY_PREFIX \o <<"x">>,
    LET_PREFIX \o <<"x">> \o LET_SUFFIX,
    ASSIGN_PREFIX \o <<"x", " ", "5">>,
    <<"x">> }

\* the sequences of 1..n lines of BranchLines
RECURSIVE BranchLineSeqs(_)
BranchLineSeqs(n) ==
  IF n = 1 THEN { <<l>> : l \in BranchLines }
  ELSE BranchLineSeqs(n - 1)
       \cup { Append(ls, l) : ls \in { q \in BranchLineSeqs(n - 1) : Len(q) = n - 1 },
                               l \in BranchLines }

\* the text whose logical lines are lines, separated by the terminator term
RECURSIVE Join(_, _)
Join(lines, term) ==
  IF Len(lines) = 1 THEN lines[1]
  ELSE Join(SubSeq(lines, 1, Len(lines) - 1), term) \o term \o lines[Len(lines)]

\* ------------------------------------------------------------------------
\* Compiler
\* ------------------------------------------------------------------------

\* the loop of Compiler::new over the characters of txt, at character i:
\* res is the vector of the lines pushed so far, cur the line being collected
RECURSIVE SplitLoop(_, _, _, _)
SplitLoop(txt, i, res, cur) ==
  IF i > Len(txt) THEN Append(res, cur)
  ELSE IF txt[i] = "\r" \/ txt[i] = "\n"
       THEN SplitLoop(txt, i + 1, Append(res, cur), <<>>)
       ELSE SplitLoop(txt, i + 1, res, Append(cur, txt[i]))

\* the field raw built by Compiler::new
SplitLines(txt) == SplitLoop(txt, 1, <<>>, <<>>)

VARIABLES
  srcLines,      \* input: the logical lines of the source text
  raw_txt,       \* input: the source text, the argument of Compiler::new
  ptr,           \* Compiler.ptr
  raw,           \* Compiler.raw
  global_scope,  \* Compiler.global_scope
  compiled,      \* the local compiled of compile
  status,        \* "running", or how compile returned: "ok" or "err"
  output,        \* the list returned by compile (<<>> while none is returned)
  error,         \* the Error returned by compile (NoError while none is)
  classified,    \* history: numbers of the lines given to match_statement
  lexCalls,      \* history: the calls of the lexer, with their results
  lexScope,      \* the scope owned by the lexer after its latest call
  prev           \* the result of an earlier compilation of the same text

vars == <<srcLines, raw_txt, ptr, raw, global_scope, compiled, status, output,
          error, classified, lexCalls, lexScope, prev>>

\* the value of prev while the text was compiled at most once
NoResult == [status |-> "none", output |-> <<>>, error |-> NoError]

\* state after Compiler::new(raw_txt), at the entry of compile
Init ==
  /\ srcLines \in LineSeqs(MaxLines)
  /\ \E term \in Terminators : raw_txt = Join(srcLines, term)
  /\ ptr = 0
  /\ raw = SplitLines(raw_txt)
  /\ global_scope = ScopeNew
  /\ compiled = <<>>
  /\ status = "running"
  /\ output = <<>>
  /\ error = NoError
  /\ classified = {}
  /\ lexCalls = <<>>
  /\ lexScope = {}
  /\ prev = NoResult

\* advance that skips a line
advance_Skip(p) == p + 2

\* advance that moves the cursor back to the first line after the second
advance_Back(p) == IF p = 1 THEN 0 ELSE p + 1

\* Compiler::advance
advance(p) == p + 1

\* the position in the output instead of the position in the source
LineNo_Compacted(p) == Len(compiled) + 1

\* the number of the line after the current one
LineNo_Ahead(p) == p + 2

\* the line number compile attaches to instructions and errors: self.ptr + 1
LineNo(p) == p + 1

\* the line as it is, without trim
curln_NoTrim == raw[ptr + 1]

\* let curln = self.raw[self.ptr].trim()
curln == Trim(raw[ptr + 1])

\* wrap_check that returns the error as it is
wrap_check_Verbatim(res, p) == res

\* Compiler::wrap_check
wrap_check(res, p) ==
  IF ~res.ok THEN [res EXCEPT !.error = ErrorTraceback(res.error, p + 1)]
  ELSE res

\* the lexer sees every declaration of the text
ScopeClone_Hoisted(scope) ==
  { Slice(Trim(raw[j]), 16, Len(Trim(raw[j])) - 5) :
      j \in { i \in 1..Len(raw) : match_statement(Trim(raw[i])) = "Let" } }

\* self.global_scope.clone()
ScopeClone(scope) == scope

Instr(line, op, name, tokens) ==
  [line |-> line, op |-> op, name |-> name, tokens |-> tokens]

\* End() numbered with the cursor
EndInstr_AtPtr == Instr(ptr, "End", <<>>, <<>>)

\* (0, Instruction::End())
EndInstr == Instr(0, "End", <<>>, <<>>)

\* the illegal statement reported as a NameError
IllegalStatementError_Kind(p) ==
  ErrorNew("NameError", <<"Illegal statement">>, LineNo(p))

\* the error of a line that matches no statement
IllegalStatementError(p) ==
  ErrorNew("SyntaxError", <<"Illegal statement">>, LineNo(p))

\* the redeclaration reported at the 0-based cursor
AlreadyExistsError_ZeroBased(varname, p) ==
  ErrorNew("NameError",
           <<"Variable ", varname, " already exists in the current scope">>,
           p)

\* the error of a Let of a name that is in scope
AlreadyExistsError(varname, p) ==
  ErrorNew("NameError",
           <<"Variable ", varname, " already exists in the current scope">>,
           LineNo(p))

\* the loop of compile is at a line
AtLine == status = "running" /\ ptr < Len(raw)

\* compile returns Err(e)
ReturnErr(e) ==
  /\ status' = "err"
  /\ error' = e
  /\ UNCHANGED <<ptr, compiled, output>>

\* a line whose trimmed text is empty: only advance
SkipBlank ==
  /\ AtLine
  /\ curln = <<>>
  /\ ptr' = advance(ptr)
  /\ UNCHANGED <<srcLines, raw_txt, prev, raw, global_scope, compiled, status,
                 output, error, classified, lexCalls, lexScope>>

\* no statement matched
IllegalStatement ==
  /\ AtLine
  /\ curln # <<>>
  /\ match_statement(curln) = "None"
  /\ classified' = classified \cup {ptr + 1}
  /\ ReturnErr(IllegalStatementError(ptr))
  /\ UNCHANGED <<srcLines, raw_txt, prev, raw, global_scope, lexCalls, lexScope>>

\* the call of the lexer and of wrap_check on its result, shared by the Say
\* and Assign branches: res is the lexer's result, ls its scope afterwards,
\* op and name the instruction to push
LexStep(expr, res, ls, op, name) ==
  /\ lexCalls' = Append(lexCalls, [line |-> ptr + 1, expr |-> expr,
                                   scope |-> ScopeClone(global_scope),
                                   result |-> res])
  /\ lexScope' = ls
  /\ LET checked == wrap_check(res, ptr) IN
       IF checked.ok
       THEN /\ compiled' = Append(compiled, Instr(LineNo(ptr), op, name, checked.tokens))
            /\ ptr' = advance(ptr)
            /\ UNCHANGED <<status, output, error>>
       ELSE ReturnErr(checked.error)

\* &curln[16..]
SayExpr(line) == Slice(line, 16, Len(line))

\* the Say branch
CompileSay ==
  /\ AtLine
  /\ curln # <<>>
  /\ match_statement(curln) = "Say"
  /\ classified' = classified \cup {ptr + 1}
  /\ InRange(curln, 16, Len(curln))
  /\ LET expr == SayExpr(curln) IN
       \E res \in MakeTokens(expr, ScopeClone(global_scope)) :
         \E ls \in LexerFinalScopes(ScopeClone(global_scope)) :
           LexStep(expr, res, ls, "Put", <<>>)
  /\ UNCHANGED <<srcLines, raw_txt, prev, raw, global_scope>>

\* the suffix cut one character short
LetVarname_Short(line) == Slice(line, 16, Len(line) - 4)

\* &curln[16..(curln.len() - 5)]
LetVarname(line) == Slice(line, 16, Len(line) - 5)

\* the Let branch without the test of has_var
CompileLet_NoCheck ==
  /\ AtLine
  /\ curln # <<>>
  /\ match_statement(curln) = "Let"
  /\ classified' = classified \cup {ptr + 1}
  /\ InRange(curln, 16, Len(curln) - 5)
  /\ global_scope' = add_var(global_scope, LetVarname(curln))
  /\ compiled' = Append(compiled,
                        Instr(LineNo(ptr), "Let", LetVarname(curln), <<>>))
  /\ ptr' = advance(ptr)
  /\ UNCHANGED <<srcLines, raw_txt, prev, raw, status, output, error,
                 lexCalls, lexScope>>

\* the Let branch
CompileLet ==
  /\ AtLine
  /\ curln # <<>>
  /\ match_statement(curln) = "Let"
  /\ classified' = classified \cup {ptr + 1}
  /\ InRange(curln, 16, Len(curln) - 5)
  /\ LET varname == LetVarname(curln) IN
       IF has_var(global_scope, varname)
       THEN /\ ReturnErr(AlreadyExistsError(varname, ptr))
            /\ UNCHANGED global_scope
       ELSE /\ global_scope' = add_var(global_scope, varname)
            /\ compiled' = Append(compiled, Instr(LineNo(ptr), "Let", varname, <<>>))
            /\ ptr' = advance(ptr)
            /\ UNCHANGED <<status, output, error>>
  /\ UNCHANGED <<srcLines, raw_txt, prev, raw, lexCalls, lexScope>>

\* &curln[17..]
AssignSlice(line) == Slice(line, 17, Len(line))

\* the name taken from the wrong side of the space
AssignVarname_Swapped(slice, index) == Trim(Slice(slice, index + 1, Len(slice)))

\* String::from(&slice[..index]).trim()
AssignVarname(slice, index) == Trim(Slice(slice, 0, index))

\* &slice[(index + 1)..]
AssignExpr(slice, index) == Slice(slice, index + 1, Len(slice))

\* the Assign branch
CompileAssign ==
  /\ AtLine
  /\ curln # <<>>
  /\ match_statement(curln) = "Assign"
  /\ classified' = classified \cup {ptr + 1}
  /\ InRange(curln, 17, Len(curln))
  /\ LET slice == AssignSlice(curln)
         index == Find(slice, " ")
     IN IF index # -1
        THEN LET varname == AssignVarname(slice, index)
                 expr == AssignExpr(slice, index)
             IN \E res \in MakeTokens(expr, ScopeClone(global_scope)) :
                  \E ls \in LexerFinalScopes(ScopeClone(global_scope)) :
                    LexStep(expr, res, ls, "Set", varname)
        ELSE /\ ReturnErr(IllegalStatementError(ptr))
             /\ UNCHANGED <<lexCalls, lexScope>>
  /\ UNCHANGED <<srcLines, raw_txt, prev, raw, global_scope>>

\* after the loop: push (0, End()) and return Ok(compiled)
Finish ==
  /\ status = "running"
  /\ ~(ptr < Len(raw))
  /\ compiled' = Append(compiled, EndInstr)
  /\ output' = compiled'
  /\ status' = "ok"
  /\ UNCHANGED <<srcLines, raw_txt, prev, ptr, raw, global_scope, error,
                 classified, lexCalls, lexScope>>

Next ==
  \/ SkipBlank
  \/ IllegalStatement
  \/ CompileSay
  \/ CompileLet
  \/ CompileAssign
  \/ Finish

Spec == Init /\ [][Next]_vars

\* state after Compiler::new on a text made of the lines of BranchLines
InitBranches ==
  /\ srcLines \in BranchLineSeqs(MaxLines)
  /\ \E term \in Terminators : raw_txt = Join(srcLines, term)
  /\ ptr = 0
  /\ raw = SplitLines(raw_txt)
  /\ global_scope = ScopeNew
  /\ compiled = <<>>
  /\ status = "running"
  /\ output = <<>>
  /\ error = NoError
  /\ classified = {}
  /\ lexCalls = <<>>
  /\ lexScope = {}
  /\ prev = NoResult

\* compile is a sequential loop without suspension points: while it has not
\* returned, its next step is taken
FairSpec == InitBranches /\ [][Next]_vars /\ WF_vars(Next)

\* state after Compiler::new on a text of one generated line
InitLine ==
  /\ \E l \in GeneratedLines : srcLines = <<l>> /\ raw_txt = l
  /\ ptr = 0
  /\ raw = SplitLines(raw_txt)
  /\ global_scope = ScopeNew
  /\ compiled = <<>>
  /\ status = "running"
  /\ output = <<>>
  /\ error = NoError
  /\ classified = {}
  /\ lexCalls = <<>>
  /\ lexScope = {}
  /\ prev = NoResult

\* the compilation of the texts of one generated line
SpecLine == InitLine /\ [][Next]_vars

\* a scope that outlives the compiler it was made for
NewScope_Shared(old) == old

\* global_scope: Scope::new() of a compiler made while another's scope was old
NewScope(old) == ScopeNew

\* the lexer is a function: a call of this step returns what every earlier
\* call with the same expression and the same scope returned
SameLexer ==
  Len(lexCalls') = Len(lexCalls) + 1 =>
    \A c \in 1..Len(lexCalls) :
      /\ lexCalls[c].expr = lexCalls'[Len(lexCalls')].expr
      /\ lexCalls[c].scope = lexCalls'[Len(lexCalls')].scope
      => lexCalls[c].result = lexCalls'[Len(lexCalls')].result

\* a step of compile with such a lexer
CompileStep == Next /\ SameLexer

\* compile has returned: keep its result, and give the same text to
\* Compiler::new again
CompileAgain ==
  /\ status # "running"
  /\ prev = NoResult
  /\ prev' = [status |-> status, output |-> output, error |-> error]
  /\ ptr' = 0
  /\ raw' = SplitLines(raw_txt)
  /\ global_scope' = NewScope(global_scope)
  /\ compiled' = <<>>
  /\ status' = "running"
  /\ output' = <<>>
  /\ error' = NoError
  /\ classified' = {}
  /\ UNCHANGED <<srcLines, raw_txt, lexCalls, lexScope>>

NextTwice ==
  \/ CompileStep
  \/ CompileAgain

\* two compilations of the same text, one after the other
SpecTwice == Init /\ [][NextTwice]_vars

\* ------------------------------------------------------------------------
\* Vocabulary of the properties
\* ------------------------------------------------------------------------

Last(q) == q[Len(q)]

\* number of the first n lines that are not empty after trimming
NonBlankCount(lines, n) ==
  Cardinality({ i \in 1..n : Trim(lines[i]) # <<>> })

\* the name between "Never gonna let " and " down"
LetNameOf(ln) == SubSeq(ln, Len(LET_PREFIX) + 1, Len(ln) - Len(LET_SUFFIX))

\* the run of word characters after "Never gonna give ", up to the space
AssignNameOf(ln) ==
  LET first == Len(ASSIGN_PREFIX) + 1
      i == CHOOSE i \in first..Len(ln) :
             WordPlus(SubSeq(ln, first, i)) /\ i < Len(ln) /\ ln[i + 1] = " "
  IN SubSeq(ln, first, i)

\* the text after "Never gonna give <name> "
AssignExprOf(ln) ==
  SubSeq(ln, Len(ASSIGN_PREFIX) + Len(AssignNameOf(ln)) + 2, Len(ln))

\* the text after "Never gonna say "
SayExprOf(ln) == SubSeq(ln, Len(SAY_PREFIX) + 1, Len(ln))

\* the numbers of the Let lines among the lines before line k
LetLinesBefore(lines, k) ==
  { j \in 1..(k - 1) : match_statement(Trim(lines[j])) = "Let" }

\* the names declared by the Let lines before line k of the compiler's lines
DeclaredBefore(k) ==
  { LetNameOf(Trim(raw[j])) : j \in LetLinesBefore(raw, k) }

\* instruction ins is the one that line number ins.line of lines compiles to
InstrFromLine(ins, lines) ==
  /\ ins.line \in 1..Len(lines)
  /\ LET ln == Trim(lines[ins.line]) IN
       /\ ln # <<>>
       /\ CASE ins.op = "Put" ->
                 /\ match_statement(ln) = "Say"
                 /\ ins.tokens[1] = SayExprOf(ln)
            [] ins.op = "Let" ->
                 /\ match_statement(ln) = "Let"
                 /\ ins.name = LetNameOf(ln)
            [] ins.op = "Set" ->
                 /\ match_statement(ln) = "Assign"
                 /\ ins.name = AssignNameOf(ln)
                 /\ ins.tokens[1] = AssignExprOf(ln)
            [] OTHER -> FALSE

\* the loop is at a non-blank line that the classifier gives statement st
AtStatement(st) == AtLine /\ curln # <<>> /\ match_statement(curln) = st

\* this step called the lexer
LexerCalled == Len(lexCalls') = Len(lexCalls) + 1

\* ------------------------------------------------------------------------
\* Properties
\* ------------------------------------------------------------------------

\* C1: compile returns either a single Error and no instruction list, or a
\* list with exactly one End(), which is last and has line number 0, while
\* no other element of the list has line number 0.
C1_ResultShape ==
  /\ status \in {"running", "ok", "err"}
  /\ status = "running" => output = <<>> /\ error = NoError
  /\ status = "err" => output = <<>> /\ error # NoError
  /\ status = "ok" =>
       /\ error = NoError
       /\ Len(output) >= 1
       /\ Last(output) = [line |-> 0, op |-> "End", name |-> <<>>, tokens |-> <<>>]
       /\ \A i \in 1..(Len(output) - 1) :
            output[i].op # "End" /\ output[i].line # 0

\* a success list of two statements and End()
C1_Witness == status = "ok" /\ Len(output) = 3

\* C2: every instruction other than End() carries the 1-based position
\* (cursor index + 1) of the line it was compiled from; blank lines produce
\* no instruction and do not shift the numbers of later instructions.
C2_LineNumbersExact ==
  /\ [](\A i \in 1..Len(compiled) :
          compiled[i].op # "End" => InstrFromLine(compiled[i], raw))
  /\ [][Len(compiled') = Len(compiled) + 1 /\ status' = "running"
          => Last(compiled').line = ptr + 1]_vars

\* a success list in which blank lines precede a statement
C2_Witness ==
  /\ status = "ok"
  /\ \E i \in 1..Len(output) : output[i].op # "End" /\ output[i].line > i

\* C3 (as claimed): a statement on the k-th line of a CRLF-terminated source
\* gets the same line number k, in instructions and in errors, as in the
\* LF-terminated version of the source.
C3_SameLineNumbersWithCRLF ==
  /\ \A i \in 1..Len(compiled) :
       compiled[i].op # "End" => InstrFromLine(compiled[i], srcLines)
  /\ status = "err" =>
       /\ Last(error.traceback) \in 1..Len(srcLines)
       /\ srcLines[Last(error.traceback)] = raw[ptr + 1]

\* C4: on success the number of instructions without the final End() is the
\* number of input lines that are non-empty after trimming; an input of
\* blank lines only compiles to exactly [(0, End())].
C4_InstructionCount ==
  status = "ok" =>
    /\ Len(output) - 1 = NonBlankCount(srcLines, Len(srcLines))
    /\ Len(output) - 1 = NonBlankCount(raw, Len(raw))
    /\ (\A k \in 1..Len(srcLines) : Trim(srcLines[k]) = <<>>)
         => output = <<[line |-> 0, op |-> "End", name |-> <<>>, tokens |-> <<>>]>>

\* a success on an input that mixes blank lines and statements
C4_Witness ==
  /\ status = "ok"
  /\ Len(output) = 3
  /\ \E k \in 1..Len(srcLines) : Trim(srcLines[k]) = <<>>

\* C5: a Let of a name declared by an earlier Let line fails with a NameError
\* at the line of the later Let, returns no list and leaves the scope alone;
\* a Let of a name not in scope adds the name and appends (lineNo, Let(name)).
C5_LetRedeclaration ==
  [][AtStatement("Let") =>
       LET name == LetNameOf(curln) IN
         IF name \in DeclaredBefore(ptr + 1)
         THEN /\ status' = "err"
              /\ error' = [kind |-> "NameError",
                           msg |-> <<"Variable ", name,
                                     " already exists in the current scope">>,
                           traceback |-> <<ptr + 1>>]
              /\ output' = <<>>
              /\ global_scope' = global_scope
         ELSE /\ status' = "running"
              /\ name \notin global_scope
              /\ global_scope' = global_scope \cup {name}
              /\ compiled' = Append(compiled,
                                    [line |-> ptr + 1, op |-> "Let",
                                     name |-> name, tokens |-> <<>>])]_vars

\* a redeclaration on the third line was refused
C5_Witness ==
  /\ status = "err"
  /\ error.kind = "NameError"
  /\ error.traceback = <<3>>
  /\ match_statement(Trim(raw[3])) = "Let"

\* C6: compilation stops at the first failing line k: the error is attributed
\* to k, every non-blank line before k gave an instruction, and no line after
\* k is classified, given to the lexer or allowed to change the scope; a
\* non-blank line of no grammar fails with SyntaxError("Illegal statement")
\* at its own line number.
C6_StopsAtFirstFailure ==
  /\ [](status = "err" =>
          LET k == ptr + 1 IN
            /\ error.traceback # <<>>
            /\ Last(error.traceback) = k
            /\ Len(compiled) = NonBlankCount(raw, k - 1)
            /\ k \in classified
            /\ classified \subseteq 1..k
            /\ \A c \in 1..Len(lexCalls) : lexCalls[c].line <= k
            /\ global_scope = DeclaredBefore(k)
            /\ output = <<>>)
  /\ [][status = "err" => UNCHANGED vars]_vars
  /\ [][AtStatement("None") =>
          /\ status' = "err"
          /\ error' = [kind |-> "SyntaxError", msg |-> <<"Illegal statement">>,
                       traceback |-> <<ptr + 1>>]]_vars

\* a failure at the second line, followed by a Let line that is never reached
C6_Witness ==
  /\ status = "err"
  /\ ptr = 1
  /\ Len(raw) >= 3
  /\ match_statement(Trim(raw[3])) = "Let"

\* C7: a failure of the lexer on a Say or Assign line is returned with exactly
\* one more traceback frame, the line ptr + 1, and the line gives neither an
\* instruction nor a list; a success of the lexer is passed on unchanged.
C7_LexerErrorWrapped ==
  [][LexerCalled =>
       LET c == Last(lexCalls') IN
         /\ c.line = ptr + 1
         /\ IF c.result.ok
            THEN /\ status' = "running"
                 /\ error' = NoError
                 /\ Len(compiled') = Len(compiled) + 1
                 /\ Last(compiled').tokens = c.result.tokens
                 /\ Last(compiled').line = ptr + 1
            ELSE /\ status' = "err"
                 /\ error' # c.result.error
                 /\ error'.kind = c.result.error.kind
                 /\ error'.msg = c.result.error.msg
                 /\ error'.traceback = Append(c.result.error.traceback, ptr + 1)
                 /\ compiled' = compiled
                 /\ output' = <<>>]_vars

\* a lexer error that had a frame of its own was wrapped at the second line
C7_Witness ==
  /\ status = "err"
  /\ lexCalls # <<>>
  /\ ~Last(lexCalls).result.ok
  /\ Last(lexCalls).line = ptr + 1
  /\ error.traceback = <<0, 2>>

\* C8: the scope changes only in a successful Let step, which adds exactly
\* the name of its line; all other steps leave it unchanged and it never
\* loses a name.
C8_ScopeFrame ==
  /\ [][global_scope \subseteq global_scope']_vars
  /\ [][global_scope' # global_scope =>
          /\ AtStatement("Let")
          /\ status' = "running"
          /\ LetNameOf(curln) \notin global_scope
          /\ global_scope' = global_scope \cup {LetNameOf(curln)}]_vars
  /\ [][status' = "err" \/ ~AtStatement("Let")
          => global_scope' = global_scope]_vars

\* two names were declared and a Say or Assign line was compiled
C8_Witness ==
  /\ Cardinality(global_scope) = 2
  /\ lexCalls # <<>>

\* C9: an Assign line whose name no Let declared is accepted when the lexer
\* succeeds: (lineNo, Set(name, tokens)) is appended, the name is not added to
\* the scope, and a later Let of the name still succeeds.
C9_AssignUndeclared ==
  /\ [][AtStatement("Assign") /\ AssignNameOf(curln) \notin DeclaredBefore(ptr + 1)
          /\ LexerCalled /\ Last(lexCalls').result.ok
          => /\ status' = "running"
             /\ compiled' = Append(compiled,
                                   [line |-> ptr + 1, op |-> "Set",
                                    name |-> AssignNameOf(curln),
                                    tokens |-> Last(lexCalls').result.tokens])
             /\ global_scope' = global_scope
             /\ AssignNameOf(curln) \notin global_scope']_vars
  /\ [][AtStatement("Assign") => LexerCalled]_vars
  /\ [][AtStatement("Let") /\ LetNameOf(curln) \notin DeclaredBefore(ptr + 1)
          /\ (\E i \in 1..Len(compiled) :
                compiled[i].op = "Set" /\ compiled[i].name = LetNameOf(curln))
          => /\ status' = "running"
             /\ Last(compiled').op = "Let"
             /\ Last(compiled').name = LetNameOf(curln)]_vars

\* a name was assigned on one line and declared by a Let on a later one
C9_Witness ==
  \E i, j \in 1..Len(compiled) :
    /\ i < j
    /\ compiled[i].op = "Set"
    /\ compiled[j].op = "Let"
    /\ compiled[j].name = compiled[i].name

\* C10: the scope given to the lexer for the statement on line k holds exactly
\* the names declared by Let lines before k; what the lexer does to the scope
\* it was given does not change the compiler's scope.
C10_LexerScopeSnapshot ==
  /\ [](\A c \in 1..Len(lexCalls) :
          lexCalls[c].scope = DeclaredBefore(lexCalls[c].line))
  /\ [][LexerCalled =>
          /\ Last(lexCalls').scope = global_scope
          /\ global_scope' = global_scope]_vars

\* the lexer changed its own scope, and a Let line follows the lexer's line
C10_Witness ==
  /\ lexCalls # <<>>
  /\ global_scope # {}
  /\ lexScope # global_scope
  /\ \E j \in (Last(lexCalls).line + 1)..Len(raw) :
       /\ match_statement(Trim(raw[j])) = "Let"
       /\ LetNameOf(Trim(raw[j])) \notin Last(lexCalls).scope

\* the orders in which the three grammars can be tested
Orders ==
  { o \in [1..Len(Statements) -> 1..Len(Statements)] :
      \A a, b \in 1..Len(Statements) : a # b => o[a] # o[b] }

\* the grammars that match ln
Matching(ln) == { k \in 1..Len(Statements) : matches(Statements[k], ln) }

\* the first grammar, in the order o, that matches ln
FirstInOrder(o, ln) ==
  IF Matching(ln) = {} THEN "None"
  ELSE Statements[o[CHOOSE a \in 1..Len(Statements) :
                       /\ o[a] \in Matching(ln)
                       /\ \A b \in 1..(a - 1) : o[b] \notin Matching(ln)]]

\* what C11 says of the line ln
ClassifiedOnce(ln) ==
  /\ Cardinality(Matching(ln)) <= 1
  /\ match_statement(ln) = FirstInOrder([k \in 1..Len(Statements) |-> k], ln)
  /\ \A o \in Orders : FirstInOrder(o, ln) = match_statement(ln)

\* C11: match_statement returns the first of Say, Let, Assign that matches the
\* line, or none; at most one of the three grammars matches a line, so the
\* result does not depend on the order in which they are tested.
C11_GrammarsExclusive ==
  \A k \in 1..Len(raw) : ClassifiedOnce(raw[k]) /\ ClassifiedOnce(Trim(raw[k]))

\* a line of the last grammar of the order was classified and compiled
C11_Witness ==
  /\ Matching(Trim(raw[1])) = {3}
  /\ Len(compiled) = 1
  /\ compiled[1].op = "Set"

\* C12: two compilations of the same text, each by a fresh Compiler and with
\* the same lexer, return the same result: the same instruction list or the
\* same error with the same line numbers.
C12_Deterministic ==
  prev # NoResult /\ status # "running"
    => prev = [status |-> status, output |-> output, error |-> error]

\* both compilations declared a name, called the lexer and succeeded
C12_Witness ==
  /\ prev.status = "ok"
  /\ status = "ok"
  /\ Len(output) = 3
  /\ \E i \in 1..2 : output[i].op = "Let"
  /\ \E i \in 1..2 : output[i].op # "Let"

\* C13: ptr starts at 0, grows by exactly one in every step of a line that
\* does not fail, stays where it is when a line fails, and never exceeds the
\* number of lines; compile terminates, and End() is appended only when ptr is
\* the number of lines.
C13_CursorAndTermination ==
  /\ ptr = 0
  /\ [](ptr \in 0..Len(raw))
  /\ [][AtLine /\ status' = "running" => ptr' = ptr + 1]_vars
  /\ [][status' = "err" => ptr' = ptr /\ ptr < Len(raw)]_vars
  /\ [][status' = "ok" => ptr = Len(raw) /\ ptr' = ptr]_vars
  /\ [](status = "ok" => ptr = Len(raw) /\ Last(compiled).op = "End")
  /\ [](status = "running" =>
          \A i \in 1..Len(compiled) : compiled[i].op # "End")
  /\ <>(status # "running")

\* a success after the cursor passed a statement and a blank line
C13_Witness ==
  /\ status = "ok"
  /\ ptr = Len(raw)
  /\ ptr >= 3
  /\ Len(output) = 2

\* the position of the first space of s
FirstSpace(s) ==
  CHOOSE i \in 1..Len(s) : s[i] = " " /\ \A j \in 1..(i - 1) : s[j] # " "

\* C14: for every trimmed line that the classifier accepts as Assign, the
\* text after the 17-character prefix has a space and the text before its
\* first space is a non-empty run of word characters, which becomes the name
\* of the instruction; the SyntaxError branch of Assign is never taken.
C14_AssignSpaceFound ==
  [][AtStatement("Assign") =>
       LET rest == SubSeq(curln, 18, Len(curln)) IN
         /\ Len(curln) > 17
         /\ \E i \in 1..Len(rest) : rest[i] = " "
         /\ WordPlus(SubSeq(rest, 1, FirstSpace(rest) - 1))
         /\ LexerCalled
         /\ Last(lexCalls').expr = SubSeq(rest, FirstSpace(rest) + 1, Len(rest))
         /\ ~(status' = "err" /\ error'.kind = "SyntaxError")
         /\ status' = "running" =>
              /\ Last(compiled').op = "Set"
              /\ Last(compiled').name = SubSeq(rest, 1, FirstSpace(rest) - 1)]_vars

\* "Never gonna give x +" was compiled to Set("x", tokens of "+")
C14_Witness ==
  /\ Len(compiled) = 1
  /\ compiled[1].op = "Set"
  /\ compiled[1].name = <<"x">>
  /\ lexCalls[1].expr = <<"+">>

\* C15: the fixed offsets are inside every accepted line: a Say line is
\* longer than 16 characters, a Let line has at least 22, so that the range
\* from 16 to length - 5 is a non-empty run of word characters, and an Assign
\* line is longer than 17; the step of an accepted line can always be taken.
C15_OffsetsInside ==
  AtLine /\ curln # <<>> =>
    /\ match_statement(curln) = "Say" =>
         Len(curln) > 16 /\ InRange(curln, 16, Len(curln))
    /\ match_statement(curln) = "Let" =>
         /\ Len(curln) >= 22
         /\ 16 < Len(curln) - 5
         /\ InRange(curln, 16, Len(curln) - 5)
         /\ WordPlus(SubSeq(curln, 17, Len(curln) - 5))
    /\ match_statement(curln) = "Assign" =>
         Len(curln) > 17 /\ InRange(curln, 17, Len(curln))
    /\ ENABLED Next

\* the shortest Let line, of 22 characters, was compiled
C15_Witness ==
  /\ Len(compiled) = 1
  /\ compiled[1].op = "Let"
  /\ compiled[1].name = <<"x">>
  /\ Len(Trim(raw[1])) = 22

\* the names of the Let instructions of a list
LetNames(list) ==
  { list[i].name : i \in { j \in 1..Len(list) : list[j].op = "Let" } }

\* C16: the scope is always the set of the names of the Let instructions
\* appended so far, so the Let instructions of a success list have pairwise
\* distinct names.
C16_ScopeIsLetNames ==
  /\ global_scope = LetNames(compiled)
  /\ \A i, j \in 1..Len(compiled) :
       /\ i # j
       /\ compiled[i].op = "Let"
       /\ compiled[j].op = "Let"
       => compiled[i].name # compiled[j].name
  /\ status = "ok" => LetNames(output) = global_scope

\* a success list with two Let instructions
C16_Witness ==
  /\ status = "ok"
  /\ Cardinality(LetNames(output)) = 2

\* C17: the line numbers of the instructions other than End() increase
\* strictly in list order, lie between 1 and the number of lines, and are
\* never greater than the cursor.
C17_LineNumbersIncrease ==
  /\ \A i \in 1..Len(compiled) :
       compiled[i].op # "End" =>
         /\ compiled[i].line \in 1..Len(raw)
         /\ compiled[i].line <= ptr
  /\ \A i, j \in 1..Len(compiled) :
       i < j /\ compiled[j].op # "End" => compiled[i].line < compiled[j].line
  /\ \A i, j \in 1..Len(output) :
       i < j /\ output[j].op # "End" => output[i].line < output[j].line

\* a success list whose line numbers skip a line
C17_Witness ==
  /\ status = "ok"
  /\ Len(output) = 3
  /\ output[2].line > output[1].line + 1

\* every character of s is white space
AllWhite(s) == \A i \in 1..Len(s) : s[i] \in WhiteSpace

\* line l is a Say or an Assign whose expression is missing or white space
ExprMissing(l) ==
  LET t == TrimStart(l) IN
    \/ StartsWith(t, SAY_PREFIX) /\ AllWhite(SubSeq(t, 17, Len(t)))
    \/ /\ StartsWith(t, ASSIGN_PREFIX)
       /\ \E i \in 18..Len(t) :
            WordPlus(SubSeq(t, 18, i)) /\ AllWhite(SubSeq(t, i + 1, Len(t)))

\* C18: the lexer is never called with an empty expression: a Say or Assign
\* line whose expression is missing or white space matches no grammar after
\* trimming and fails with SyntaxError("Illegal statement") at its line.
C18_NoEmptyExpression ==
  /\ [](\A c \in 1..Len(lexCalls) :
          /\ lexCalls[c].expr # <<>>
          /\ ~AllWhite(lexCalls[c].expr))
  /\ [][AtLine /\ ExprMissing(raw[ptr + 1]) =>
          /\ ~LexerCalled
          /\ status' = "err"
          /\ error' = [kind |-> "SyntaxError", msg |-> <<"Illegal statement">>,
                       traceback |-> <<ptr + 1>>]]_vars

\* "Never gonna give x " was refused
C18_Witness ==
  /\ raw[1] = ASSIGN_PREFIX \o <<"x", " ">>
  /\ status = "err"
  /\ error.kind = "SyntaxError"
  /\ lexCalls = <<>>

====
